---------------------------- MODULE Spec2Model ----------------------------
(***************************************************************************)
(* A model of the ShupraProtects phishing-detector extension:              *)
(*   background.js  the analysis pipeline (analyzeEmail, runLocalBasicScan,*)
(*                  analyzeEmailWithOpenRouter)                            *)
(*   popup.js       the client (settings, retention, scan, polling)        *)
(*                                                                         *)
(* Strings are sequences of tokens.  A text (subject, body) is a sequence  *)
(* of words, a link is <<scheme, host, ...>>, a storage key is a record    *)
(* [prefix, rest] whose rest is a sequence of character codes, and the     *)
(* text returned by the remote service is a sequence of lexical tokens.    *)
(***************************************************************************)
EXTENDS Integers, Sequences, FiniteSets, TLC

VARIABLES
    store,      \* chrome.storage.local: a function from the keys present to values
    now,        \* Date.now()
    inv,        \* the analyzeEmail invocations of the background page
    requests,   \* the HTTP requests sent to the remote service so far
    scan,       \* the local-scanner harness: the email, the outcome of the scan
    popup       \* the popup page: cleanup, scan and polling state

vars == <<store, now, inv, requests, scan, popup>>

(***************************************************************************)
(* Bounds of the model.                                                    *)
(***************************************************************************)
MaxBodyPhrases == 6     \* a body holds the first n keyword phrases, n <= this
MaxTime == 1            \* Date.now() advances at most this many times
MaxOldRecords == 12     \* analysis records already stored when a run begins

(***************************************************************************)
(* Program constants.                                                      *)
(***************************************************************************)
PHISHING_THRESHOLD == 45
KeywordWeight == 15
LinkWeight == 10
MismatchWeight == 30
LocalCap == 90
DefaultThreshold == 70
IndicatorFloor == 50
KeepResults == 10
MaxAttempts == 30

Min(a, b) == IF a <= b THEN a ELSE b
Max(a, b) == IF a >= b THEN a ELSE b

(***************************************************************************)
(* Texts.                                                                  *)
(***************************************************************************)
\* String.prototype.toLowerCase on one word
LowerWord(w) ==
    CASE w = "URGENT" -> "urgent"
      [] w = "Urgent" -> "urgent"
      [] w = "Payment" -> "payment"
      [] w = "Failed" -> "failed"
      [] w = "Netflix.com" -> "netflix.com"
      [] w = "EVIL.xyz" -> "evil.xyz"
      [] OTHER -> w

ToLowerCase(s) == [i \in 1..Len(s) |-> LowerWord(s[i])]

\* String.prototype.includes: sub occurs in s as a contiguous run
Includes(s, sub) ==
    \E i \in 0..(Len(s) - Len(sub)) :
        \A j \in 1..Len(sub) : s[i + j] = sub[j]

keywords ==
    << <<"urgent">>,
       <<"account", "suspended">>,
       <<"verify", "account">>,
       <<"click", "here", "to", "update">>,
       <<"password", "expired">>,
       <<"payment", "failed">>,
       <<"unauthorized", "access">>,
       <<"invoice", "attached">> >>

\* new URL(link): a link parses when it starts with a scheme, which for
\* http and https must be followed by a host; the host name is the
\* (lower-cased) authority, empty for a scheme without one.
Schemes == {"https://", "http://", "mailto:"}

URLParses(link) ==
    /\ Len(link) >= 1
    /\ link[1] \in Schemes
    /\ link[1] = "mailto:" \/ Len(link) >= 2

URLHostname(link) ==
    IF link[1] = "mailto:" \/ Len(link) < 2
    THEN <<>>
    ELSE <<LowerWord(link[2])>>

(***************************************************************************)
(* runLocalBasicScan                                                       *)
(***************************************************************************)
Indicator(tag, arg) == [tag |-> tag, arg |-> arg]
Clause(tag, a, b) == [tag |-> tag, a |-> a, b |-> b]

\* keywords.forEach: the accumulator after the first n keywords
RECURSIVE KeywordPass(_, _, _)
KeywordPass(body, subject, n) ==
    IF n = 0
    THEN [indicators |-> <<>>, confidence |-> 0]
    ELSE LET acc == KeywordPass(body, subject, n - 1)
             kw == keywords[n]
         IN IF Includes(body, kw) \/ Includes(subject, kw)
            THEN [indicators |-> Append(acc.indicators, Indicator("keyword", n)),
                  confidence |-> acc.confidence + KeywordWeight]
            ELSE acc

LinkMismatch(links, body, subject) ==
    \E i \in 1..Len(links) :
        IF URLParses(links[i])
        THEN /\ ~Includes(body, ToLowerCase(URLHostname(links[i])))
             /\ ~Includes(subject, ToLowerCase(URLHostname(links[i])))
        ELSE TRUE

LinksFoundPass_UpToThreshold(acc) ==
    IF acc.confidence <= PHISHING_THRESHOLD
    THEN [indicators |-> Append(acc.indicators, Indicator("links_found", 0)),
          confidence |-> acc.confidence + LinkWeight]
    ELSE acc

\* the "links found" award of lines 77-80
LinksFoundPass(acc) ==
    IF acc.confidence < PHISHING_THRESHOLD
    THEN [indicators |-> Append(acc.indicators, Indicator("links_found", 0)),
          confidence |-> acc.confidence + LinkWeight]
    ELSE acc

MismatchPass(acc, links, body, subject) ==
    IF LinkMismatch(links, body, subject)
    THEN [indicators |-> Append(acc.indicators, Indicator("link_mismatch", 0)),
          confidence |-> acc.confidence + MismatchWeight]
    ELSE acc

LinkPass(acc, links, body, subject) ==
    IF Len(links) > 0
    THEN MismatchPass(LinksFoundPass(acc), links, body, subject)
    ELSE acc

CapConfidence_At100(c) == Min(c, 100)

CapConfidence(c) == Min(c, LocalCap)

LocalVerdict(confidence) == confidence >= PHISHING_THRESHOLD

LocalRecommendation(isPhishing, confidence) ==
    IF isPhishing
    THEN <<Clause("local_phishing", 0, 0)>>
    ELSE IF confidence > 0
         THEN <<Clause("local_cautiously_safe", 0, 0)>>
         ELSE <<Clause("local_safe", 0, 0)>>

FallbackNotice(isFallback, recommendation) ==
    IF isFallback
    THEN <<Clause("api_scan_failed", 0, 0)>> \o recommendation
    ELSE recommendation

runLocalBasicScan(emailData, isFallback) ==
    LET body == ToLowerCase(emailData.body)
        subject == ToLowerCase(emailData.subject)
        kwAcc == KeywordPass(body, subject, Len(keywords))
        acc == LinkPass(kwAcc, emailData.links, body, subject)
        confidence == CapConfidence(acc.confidence)
        isPhishing == LocalVerdict(confidence)
    IN [isPhishing |-> isPhishing,
        confidence |-> confidence,
        indicators |-> acc.indicators,
        recommendation |->
            FallbackNotice(isFallback, LocalRecommendation(isPhishing, confidence))]

(***************************************************************************)
(* The text the remote service returns.  A token is [t, v]: "ws" is white  *)
(* space, "fence_json" and "fence" are the code fences with and without   *)
(* the json tag, "{" and "}" are braces,                                   *)
(* "members" is the member list of a JSON object (v indexes Payloads),     *)
(* "text" is any other run of characters.                                  *)
(***************************************************************************)
Tok(t) == [t |-> t, v |-> 0]
Members(n) == [t |-> "members", v |-> n]

Field(type, val) == [type |-> type, val |-> val]

AiText == <<Clause("ai_text", 0, 0)>>
AiIndicators(n) == [i \in 1..n |-> Indicator("ai", i)]

\* the confidences the service is taken to answer with (whole numbers only)
ConfidenceValues == <<-5, 0, 49, 50, 69, 70, 100, 150>>

Payload(p, c, n) ==
    [isPhishing |-> Field("boolean", p),
     confidence |-> Field("number", c),
     indicators |-> Field("array", AiIndicators(n)),
     recommendation |-> Field("string", AiText)]

\* the objects of the right shape: either verdict, every confidence, zero
\* to two indicators
ValidPayloads ==
    [n \in 1..(2 * Len(ConfidenceValues) * 3) |->
        Payload((n - 1) % 2 = 1,
                ConfidenceValues[(((n - 1) \div 2) % Len(ConfidenceValues)) + 1],
                (n - 1) \div (2 * Len(ConfidenceValues)))]

\* objects of a wrong shape: a field of the wrong type, a field missing
InvalidPayloads ==
    LET ok == Payload(TRUE, 70, 1)
    IN <<[ok EXCEPT !.isPhishing = Field("string", TRUE)],
         [ok EXCEPT !.confidence = Field("string", 70)],
         [ok EXCEPT !.indicators = Field("string", <<>>)],
         [ok EXCEPT !.recommendation = Field("undefined", <<>>)]>>

Payloads == ValidPayloads \o InvalidPayloads

PayloadIndex(p) == CHOOSE n \in DOMAIN Payloads : Payloads[n] = p

\* String.prototype.trim
RECURSIVE TrimStart(_)
TrimStart(s) ==
    IF s # <<>> /\ Head(s).t = "ws" THEN TrimStart(Tail(s)) ELSE s

RECURSIVE TrimEnd(_)
TrimEnd(s) ==
    IF s # <<>> /\ s[Len(s)].t = "ws" THEN TrimEnd(SubSeq(s, 1, Len(s) - 1)) ELSE s

Trim(s) == TrimEnd(TrimStart(s))

\* the replace calls of line 217: every fence token goes, with the white
\* space that follows it
RECURSIVE RemoveFence(_, _)
RemoveFence(s, fence) ==
    IF s = <<>>
    THEN <<>>
    ELSE IF Head(s).t = fence
         THEN RemoveFence(TrimStart(Tail(s)), fence)
         ELSE <<Head(s)>> \o RemoveFence(Tail(s), fence)

StripFences(s) == RemoveFence(RemoveFence(s, "fence_json"), "fence")

Positions(s, t) == {i \in 1..Len(s) : s[i].t = t}

SetMin(S) == CHOOSE x \in S : \A y \in S : x <= y
SetMax(S) == CHOOSE x \in S : \A y \in S : x >= y

\* jsonStr.match of line 220: the pattern is greedy, so the match runs
\* from the first "{" to the last "}" after it
HasJsonMatch(s) ==
    /\ Positions(s, "{") # {}
    /\ \E j \in Positions(s, "}") : j > SetMin(Positions(s, "{"))

JsonMatch(s) == SubSeq(s, SetMin(Positions(s, "{")), SetMax(Positions(s, "}")))

\* JSON.parse of the matched span: an object is "{" members "}", white
\* space allowed around the members; "{" "}" is the empty object
RECURSIVE DropWs(_)
DropWs(s) ==
    IF s = <<>>
    THEN <<>>
    ELSE IF Head(s).t = "ws"
         THEN DropWs(Tail(s))
         ELSE <<Head(s)>> \o DropWs(Tail(s))

EmptyObject ==
    [isPhishing |-> Field("undefined", FALSE),
     confidence |-> Field("undefined", 0),
     indicators |-> Field("undefined", <<>>),
     recommendation |-> Field("undefined", <<>>)]

JsonParses(span) ==
    LET d == DropWs(span)
    IN \/ Len(d) = 3 /\ d[1].t = "{" /\ d[2].t = "members" /\ d[3].t = "}"
       \/ Len(d) = 2 /\ d[1].t = "{" /\ d[2].t = "}"

JsonParse(span) ==
    LET d == DropWs(span)
    IN IF Len(d) = 3 THEN Payloads[d[2].v] ELSE EmptyObject

\* the structure validation of lines 227-233
ValidStructure(parsed) ==
    /\ parsed.isPhishing.type = "boolean"
    /\ parsed.confidence.type = "number"
    /\ parsed.indicators.type = "array"
    /\ parsed.recommendation.type = "string"

ResultOf(parsed) ==
    [isPhishing |-> parsed.isPhishing.val,
     confidence |-> parsed.confidence.val,
     indicators |-> parsed.indicators.val,
     recommendation |-> parsed.recommendation.val]

\* Outcome of lines 207-233 on the content of a successful response:
\* [ok, error, result]
NoResult ==
    [isPhishing |-> FALSE, confidence |-> 0, indicators |-> <<>>,
     recommendation |-> <<>>]

Thrown(error) == [ok |-> FALSE, error |-> error, result |-> NoResult]

ParseContent(content) ==
    IF content = <<>>
    THEN Thrown("No response from API")
    ELSE LET jsonStr == StripFences(Trim(content))
         IN IF ~HasJsonMatch(jsonStr)
            THEN Thrown("Invalid response format from API")
            ELSE IF ~JsonParses(JsonMatch(jsonStr))
                 THEN Thrown("SyntaxError")
                 ELSE IF ~ValidStructure(JsonParse(JsonMatch(jsonStr)))
                      THEN Thrown("Invalid response structure from API")
                      ELSE [ok |-> TRUE, error |-> "",
                            result |-> ResultOf(JsonParse(JsonMatch(jsonStr)))]

(***************************************************************************)
(* The reconciliation of lines 235-249.                                    *)
(***************************************************************************)
IndicatorRule_SetsFloor(result) ==
    IF Len(result.indicators) > 0
    THEN [result EXCEPT !.isPhishing = TRUE, !.confidence = IndicatorFloor]
    ELSE result

\* 1. indicators present: the verdict is phishing, the confidence at least 50
IndicatorRule(result) ==
    IF Len(result.indicators) > 0
    THEN [result EXCEPT !.isPhishing = TRUE,
                        !.confidence = Max(result.confidence, IndicatorFloor)]
    ELSE result

ThresholdRule_Strict(result, threshold) ==
    IF result.confidence > threshold /\ ~result.isPhishing
    THEN [result EXCEPT
            !.isPhishing = TRUE,
            !.recommendation =
                <<Clause("flagged_high_confidence", result.confidence, threshold)>>
                    \o result.recommendation]
    ELSE result

ThresholdRule_Unguarded(result, threshold) ==
    IF result.confidence >= threshold
    THEN [result EXCEPT
            !.isPhishing = TRUE,
            !.recommendation =
                <<Clause("flagged_high_confidence", result.confidence, threshold)>>
                    \o result.recommendation]
    ELSE result

\* 2. the user threshold
ThresholdRule(result, threshold) ==
    IF result.confidence >= threshold /\ ~result.isPhishing
    THEN [result EXCEPT
            !.isPhishing = TRUE,
            !.recommendation =
                <<Clause("flagged_high_confidence", result.confidence, threshold)>>
                    \o result.recommendation]
    ELSE result

Reconcile(result, threshold) == ThresholdRule(IndicatorRule(result), threshold)

(***************************************************************************)
(* chrome.storage.local.  A key is [prefix, rest]: the settings keys have  *)
(* an empty rest, an analysis key is "analysis_" followed by the           *)
(* characters (UTF-16 code units) of the email id or of Date.now().        *)
(***************************************************************************)
SettingKey(name) == [prefix |-> name, rest |-> <<>>]
AnalysisKey(rest) == [prefix |-> "analysis_", rest |-> rest]

KeyApiKey == SettingKey("or_api_key")
KeyEndpoint == SettingKey("or_endpoint")
KeyModel == SettingKey("or_model")
KeyThreshold == SettingKey("user_threshold")

\* k.startsWith('analysis_')
IsAnalysisKey(k) == k.prefix = "analysis_"

AnalysisKeysOf(storage) == {k \in DOMAIN storage : IsAnalysisKey(k)}

\* the value read for a key, undefined read as the given falsy value
Stored(storage, key, falsy) ==
    IF key \in DOMAIN storage THEN storage[key] ELSE falsy

StorageSet_MergesFields(storage, key, value) ==
    [k \in DOMAIN storage \cup {key} |->
        IF k = key
        THEN IF key \in DOMAIN storage
             THEN [value EXCEPT !.timestamp = storage[key].timestamp]
             ELSE value
        ELSE storage[k]]

\* chrome.storage.local.set({[key]: value}): the value is replaced whole
StorageSet(storage, key, value) ==
    [k \in DOMAIN storage \cup {key} |-> IF k = key THEN value ELSE storage[k]]

StorageRemove(storage, keys) ==
    [k \in DOMAIN storage \ keys |-> storage[k]]

EmptyStorage == [k \in {} |-> 0]

\* String(Date.now()): the decimal digits, as character codes
RECURSIVE DecimalDigits(_)
DecimalDigits(n) ==
    IF n < 10 THEN <<48 + n>> ELSE Append(DecimalDigits(n \div 10), 48 + (n % 10))

\* the first instant of a run; the stored records of earlier runs are older
Time0 == 120

DefaultEndpoint == <<"https://openrouter.ai/api/v1/chat/completions">>
DefaultModel == <<"meta-llama/llama-3.2-3b-instruct:free">>

(***************************************************************************)
(* analyzeEmail and analyzeEmailWithOpenRouter, one step per await.        *)
(***************************************************************************)
InvIds == {1, 2}

NoEmail == [from |-> <<>>, subject |-> <<>>, body |-> <<>>, links |-> <<>>,
            emailId |-> <<>>]

NoSettings == [or_api_key |-> <<>>, or_endpoint |-> <<>>, or_model |-> <<>>,
               user_threshold |-> 0]

NoRecord ==
    [isPhishing |-> FALSE, confidence |-> 0, indicators |-> <<>>,
     recommendation |-> <<>>, timestamp |-> 0,
     emailData |-> [from |-> <<>>, subject |-> <<>>],
     settings |-> [model |-> <<>>, threshold |-> 0]]

NoPending == [key |-> AnalysisKey(<<>>), value |-> NoRecord]

NoReply == [sent |-> FALSE, success |-> FALSE, result |-> NoResult, error |-> ""]

NoResponse == [kind |-> "none", content |-> <<>>]

IdleInv ==
    [pc |-> "idle", email |-> NoEmail, settings |-> NoSettings, path |-> "none",
     response |-> NoResponse, raw |-> NoResult, result |-> NoResult,
     pending |-> NoPending, reply |-> NoReply]

\* sendResponse({ success: true, result })
ReplyResult(result) ==
    [sent |-> TRUE, success |-> TRUE, result |-> result, error |-> ""]

\* sendResponse({ success: false, error: error.message })
ReplyError(error) ==
    [sent |-> TRUE, success |-> FALSE, result |-> NoResult, error |-> error]

\* chrome.storage.local.get of the four settings keys
ReadSettings(storage) ==
    [or_api_key |-> Stored(storage, KeyApiKey, <<>>),
     or_endpoint |-> Stored(storage, KeyEndpoint, <<>>),
     or_model |-> Stored(storage, KeyModel, <<>>),
     user_threshold |-> Stored(storage, KeyThreshold, 0)]

\* !settings.or_api_key
NoApiKey(settings) == settings.or_api_key = <<>>

\* settings.user_threshold || 70
ThresholdOf(settings) ==
    IF settings.user_threshold = 0 THEN DefaultThreshold ELSE settings.user_threshold

EndpointOf(settings) ==
    IF settings.or_endpoint = <<>> THEN DefaultEndpoint ELSE settings.or_endpoint

ModelOf(settings) ==
    IF settings.or_model = <<>> THEN DefaultModel ELSE settings.or_model

\* the message listener receives { action: 'analyzeEmail', emailData } and
\* analyzeEmail asks the store for the settings
ReceiveAnalyzeEmail(i, e) ==
    /\ inv[i].pc = "idle"
    /\ inv' = [inv EXCEPT ![i] = [IdleInv EXCEPT !.pc = "settings", !.email = e]]
    /\ UNCHANGED <<store, now, requests, scan, popup>>

Fallback_Rethrows(v) ==
    [v EXCEPT !.pc = "done", !.path = "fallback",
              !.reply = ReplyError("remote scan failed")]

\* the catch block of analyzeEmail: the local scan in fallback mode
Fallback(v) ==
    [v EXCEPT !.pc = "done", !.path = "fallback",
              !.reply = ReplyResult(runLocalBasicScan(v.email, TRUE))]

Route_AlwaysRemote(v, settings) == [v EXCEPT !.pc = "fetch", !.settings = settings]

\* the continuation of analyzeEmail after the settings are read, up to the
\* return of the local scan or to the fetch of the remote scan
Route(v, settings) ==
    IF NoApiKey(settings)
    THEN [v EXCEPT !.pc = "done", !.path = "local", !.settings = settings,
                   !.reply = ReplyResult(runLocalBasicScan(v.email, FALSE))]
    ELSE [v EXCEPT !.pc = "fetch", !.settings = settings]

HttpRequest(i, settings) ==
    [by |-> i, endpoint |-> EndpointOf(settings), model |-> ModelOf(settings),
     authorization |-> settings.or_api_key]

SettingsResolved(i) ==
    /\ inv[i].pc = "settings"
    /\ LET next == Route(inv[i], ReadSettings(store))
       IN /\ inv' = [inv EXCEPT ![i] = next]
          /\ requests' = IF next.pc = "fetch"
                         THEN Append(requests, HttpRequest(i, next.settings))
                         ELSE requests
    /\ UNCHANGED <<store, now, scan, popup>>

\* the settings read rejects: analyzeEmail rejects, the listener's catch replies
SettingsFailed(i) ==
    /\ inv[i].pc = "settings"
    /\ inv' = [inv EXCEPT ![i] = [@ EXCEPT !.pc = "done", !.path = "error",
                                           !.reply = ReplyError("storage")]]
    /\ UNCHANGED <<store, now, requests, scan, popup>>

\* `analysis_${emailData.emailId || Date.now()}`
RecordKey(email, time) ==
    AnalysisKey(IF email.emailId = <<>> THEN DecimalDigits(time) ELSE email.emailId)

StoredAnalysis(result, email, settings, time) ==
    [isPhishing |-> result.isPhishing,
     confidence |-> result.confidence,
     indicators |-> result.indicators,
     recommendation |-> result.recommendation,
     timestamp |-> time,
     emailData |-> [from |-> email.from, subject |-> email.subject],
     settings |-> [model |-> ModelOf(settings), threshold |-> ThresholdOf(settings)]]

\* lines 201-265 on a response: a thrown error lands in the catch block of
\* analyzeEmail; an accepted result is reconciled and its write is issued
Accept(v, raw, time) ==
    LET result == Reconcile(raw, ThresholdOf(v.settings))
    IN [v EXCEPT !.pc = "store", !.raw = raw, !.result = result,
                 !.pending = [key |-> RecordKey(v.email, time),
                              value |-> StoredAnalysis(result, v.email,
                                                       v.settings, time)]]

OnResponse(v, resp, time) ==
    LET w == [v EXCEPT !.response = resp]
    IN IF resp.kind # "ok"
       THEN Fallback(w)
       ELSE LET parsed == ParseContent(resp.content)
            IN IF parsed.ok THEN Accept(w, parsed.result, time) ELSE Fallback(w)

FetchResolved(i, resp) ==
    /\ inv[i].pc = "fetch"
    /\ inv' = [inv EXCEPT ![i] = OnResponse(inv[i], resp, now)]
    /\ UNCHANGED <<store, now, requests, scan, popup>>

Written_ReturnsUnreconciled(v) ==
    [v EXCEPT !.pc = "done", !.path = "remote", !.reply = ReplyResult(v.raw)]

\* chrome.storage.local.set resolves: the record is written, the result returned
Written(v) ==
    [v EXCEPT !.pc = "done", !.path = "remote", !.reply = ReplyResult(v.result)]

StoreResolved(i) ==
    /\ inv[i].pc = "store"
    /\ store' = StorageSet(store, inv[i].pending.key, inv[i].pending.value)
    /\ inv' = [inv EXCEPT ![i] = Written(inv[i])]
    /\ UNCHANGED <<now, requests, scan, popup>>

\* chrome.storage.local.set rejects inside the try block of analyzeEmail
StoreFailed(i) ==
    /\ inv[i].pc = "store"
    /\ inv' = [inv EXCEPT ![i] = Fallback(inv[i])]
    /\ UNCHANGED <<store, now, requests, scan, popup>>

Tick ==
    /\ now < Time0 + MaxTime
    /\ now' = now + 1
    /\ UNCHANGED <<store, inv, requests, scan, popup>>

(***************************************************************************)
(* popup.js: the settings form.  A form value is a sequence of words, " "  *)
(* being white space; the threshold field reads as [nan, n], the outcome   *)
(* of parseInt.                                                            *)
(***************************************************************************)
RECURSIVE TrimLeft(_)
TrimLeft(s) == IF s # <<>> /\ Head(s) = " " THEN TrimLeft(Tail(s)) ELSE s

RECURSIVE TrimRight(_)
TrimRight(s) ==
    IF s # <<>> /\ s[Len(s)] = " " THEN TrimRight(SubSeq(s, 1, Len(s) - 1)) ELSE s

TrimString(s) == TrimRight(TrimLeft(s))

StartsWith(s, word) == s # <<>> /\ Head(s) = word

\* Math.max(1, Math.min(100, parseInt(value, 10) || 70))
ThresholdInput(t) ==
    Max(1, Min(100, IF t.nan \/ t.n = 0 THEN DefaultThreshold ELSE t.n))

SavedSettings(storage, k, e, m, t) ==
    [key \in DOMAIN storage \cup {KeyApiKey, KeyEndpoint, KeyModel, KeyThreshold} |->
        CASE key = KeyApiKey -> k
          [] key = KeyEndpoint -> e
          [] key = KeyModel -> m
          [] key = KeyThreshold -> t
          [] OTHER -> storage[key]]

SaveResult_NoPrefixCheck(storage, apiKey, endpoint, model, threshold) ==
    LET k == TrimString(apiKey)
    IN IF k = <<>>
       THEN storage
       ELSE SavedSettings(storage, k, TrimString(endpoint), TrimString(model),
                          ThresholdInput(threshold))

\* the store after saveSettings on the form values
SaveResult(storage, apiKey, endpoint, model, threshold) ==
    LET k == TrimString(apiKey)
    IN IF k = <<>> \/ ~StartsWith(k, "sk-or-")
       THEN storage
       ELSE SavedSettings(storage, k, TrimString(endpoint), TrimString(model),
                          ThresholdInput(threshold))

saveSettings(apiKey, endpoint, model, threshold) ==
    /\ store' = SaveResult(store, apiKey, endpoint, model, threshold)
    /\ UNCHANGED <<now, inv, requests, scan, popup>>

clearApiKey_ClearsStore ==
    /\ store' = EmptyStorage
    /\ UNCHANGED <<now, inv, requests, scan, popup>>

clearApiKey ==
    /\ store' = StorageRemove(store, {KeyApiKey})
    /\ UNCHANGED <<now, inv, requests, scan, popup>>

(***************************************************************************)
(* popup.js: retention.  Array.prototype.sort without a comparator orders  *)
(* strings by their UTF-16 code units; every analysis key starts with the  *)
(* same prefix, so the order of two keys is that of their rests.           *)
(***************************************************************************)
RECURSIVE LexLess(_, _)
LexLess(a, b) ==
    IF a = <<>>
    THEN b # <<>>
    ELSE IF b = <<>>
         THEN FALSE
         ELSE IF Head(a) = Head(b)
              THEN LexLess(Tail(a), Tail(b))
              ELSE Head(a) < Head(b)

RECURSIVE SortKeys(_)
SortKeys(S) ==
    IF S = {}
    THEN <<>>
    ELSE LET least == CHOOSE k \in S : \A other \in S \ {k} : LexLess(k.rest, other.rest)
         IN <<least>> \o SortKeys(S \ {least})

Reverse(q) == [i \in 1..Len(q) |-> q[Len(q) + 1 - i]]

\* Array.prototype.slice(from)
Slice(q, from) == SubSeq(q, from + 1, Len(q))

Range(q) == {q[i] : i \in 1..Len(q)}

NoDisplay == [shown |-> FALSE, record |-> NoRecord]

IdlePopup ==
    [cleanup |-> [pc |-> "idle", storage |-> EmptyStorage, keysToRemove |-> <<>>],
     loadPc |-> "idle",
     scanPc |-> "idle",
     startedAt |-> 0,
     interval |-> FALSE,
     attempts |-> 0,
     reads |-> 0,
     outcomes |-> <<>>,
     delivered |-> NoDisplay,
     displayed |-> NoDisplay]

\* Object.keys(storage).filter(...).sort().reverse()
NewestFirst(storage) == Reverse(SortKeys(AnalysisKeysOf(storage)))

KeysToRemove_KeepsEleven(storage) ==
    IF Len(NewestFirst(storage)) > KeepResults
    THEN Slice(NewestFirst(storage), KeepResults + 1)
    ELSE <<>>

\* the keys cleanupOldResults removes, none when at most 10 are stored
KeysToRemove(storage) ==
    IF Len(NewestFirst(storage)) > KeepResults
    THEN Slice(NewestFirst(storage), KeepResults)
    ELSE <<>>

\* DOMContentLoaded: init calls cleanupOldResults, which asks for the store
CleanupStart ==
    /\ popup.cleanup.pc = "idle"
    /\ popup' = [popup EXCEPT !.cleanup.pc = "get"]
    /\ UNCHANGED <<store, now, inv, requests, scan>>

\* chrome.storage.local.get(null) resolves
CleanupGetResolved ==
    /\ popup.cleanup.pc = "get"
    /\ popup' = [popup EXCEPT
                    !.cleanup = [pc |-> IF KeysToRemove(store) = <<>>
                                        THEN "done" ELSE "remove",
                                 storage |-> store,
                                 keysToRemove |-> KeysToRemove(store)]]
    /\ UNCHANGED <<store, now, inv, requests, scan>>

\* chrome.storage.local.remove(keysToRemove) resolves
CleanupRemoveResolved ==
    /\ popup.cleanup.pc = "remove"
    /\ store' = StorageRemove(store, Range(popup.cleanup.keysToRemove))
    /\ popup' = [popup EXCEPT !.cleanup.pc = "done"]
    /\ UNCHANGED <<now, inv, requests, scan>>

(***************************************************************************)
(* popup.js: scanEmail and pollForResult.                                  *)
(***************************************************************************)
\* analysisKeys.sort().pop()
LatestKey(storage) ==
    LET sorted == SortKeys(AnalysisKeysOf(storage)) IN sorted[Len(sorted)]

Display(record) == [shown |-> TRUE, record |-> record]

\* init, once the clean-up and the settings read are over, calls
\* loadLastResult, which asks for the store
LoadLastStart ==
    /\ popup.loadPc = "idle"
    /\ popup' = [popup EXCEPT !.loadPc = "get"]
    /\ UNCHANGED <<store, now, inv, requests, scan>>

\* the read of loadLastResult resolves: the record under the last key of
\* the sorted analysis keys is displayed, nothing when there is none
LoadLastResolved ==
    /\ popup.loadPc = "get"
    /\ popup' = IF AnalysisKeysOf(store) # {}
                THEN [popup EXCEPT !.loadPc = "done",
                                   !.displayed = Display(store[LatestKey(store)])]
                ELSE [popup EXCEPT !.loadPc = "done"]
    /\ UNCHANGED <<store, now, inv, requests, scan>>

\* the click on "Scan Current Email": the credential is asked for
ScanClick ==
    /\ popup.scanPc = "idle"
    /\ popup' = [popup EXCEPT !.scanPc = "key", !.startedAt = now]
    /\ UNCHANGED <<store, now, inv, requests, scan>>

\* the credential read resolves: without one the scan ends with an error
\* status, with one the active tab is asked for
ScanKeyResolved ==
    /\ popup.scanPc = "key"
    /\ popup' = IF Stored(store, KeyApiKey, <<>>) = <<>>
                THEN [popup EXCEPT !.scanPc = "done",
                                   !.outcomes = Append(@, "no_api_key")]
                ELSE [popup EXCEPT !.scanPc = "tab", !.displayed = NoDisplay]
    /\ UNCHANGED <<store, now, inv, requests, scan>>

\* chrome.tabs.query resolves: on a page that is no mail page the scan
\* throws, on a mail page the script is injected
ScanTabResolved(isMailPage) ==
    /\ popup.scanPc = "tab"
    /\ popup' = IF isMailPage
                THEN [popup EXCEPT !.scanPc = "script"]
                ELSE [popup EXCEPT !.scanPc = "done",
                                   !.outcomes = Append(@, "error")]
    /\ UNCHANGED <<store, now, inv, requests, scan>>

\* chrome.scripting.executeScript resolves with a result of the page's scan
\* function, which is displayed
ScanScriptReturned(result) ==
    /\ popup.scanPc = "script"
    /\ popup' = [popup EXCEPT
                    !.scanPc = "done",
                    !.displayed = Display([NoRecord EXCEPT
                                              !.isPhishing = result.isPhishing,
                                              !.confidence = result.confidence,
                                              !.indicators = result.indicators,
                                              !.recommendation = result.recommendation]),
                    !.outcomes = Append(@, "complete")]
    /\ UNCHANGED <<store, now, inv, requests, scan>>

\* executeScript rejects (no scan function in the page)
ScanScriptFailed ==
    /\ popup.scanPc = "script"
    /\ popup' = [popup EXCEPT !.scanPc = "done", !.outcomes = Append(@, "error")]
    /\ UNCHANGED <<store, now, inv, requests, scan>>

\* executeScript resolves without a result: pollForResult sets its interval
ScanScriptEmpty ==
    /\ popup.scanPc = "script"
    /\ popup' = [popup EXCEPT !.scanPc = "polling", !.interval = TRUE,
                              !.attempts = 0]
    /\ UNCHANGED <<store, now, inv, requests, scan>>

\* the interval fires: attempts++, and the callback asks for the store
PollTick(maxReads) ==
    /\ popup.interval
    /\ popup.reads < maxReads
    /\ popup' = [popup EXCEPT !.attempts = @ + 1, !.reads = @ + 1]
    /\ UNCHANGED <<store, now, inv, requests, scan>>

\* the rest of the interval callback once its read of the store resolves
PollOutcome(p, storage) ==
    IF AnalysisKeysOf(storage) # {}
    THEN [p EXCEPT !.displayed = Display(storage[LatestKey(storage)]),
                   !.delivered = Display(storage[LatestKey(storage)]),
                   !.outcomes = Append(@, "complete"),
                   !.interval = FALSE,
                   !.scanPc = "done"]
    ELSE IF p.attempts >= MaxAttempts
         THEN [p EXCEPT !.outcomes = Append(@, "timeout"),
                        !.interval = FALSE,
                        !.scanPc = "done"]
         ELSE p

PollReadResolved ==
    /\ popup.reads > 0
    /\ popup' = PollOutcome([popup EXCEPT !.reads = @ - 1], store)
    /\ UNCHANGED <<store, now, inv, requests, scan>>

(***************************************************************************)
(* The local scanner on its own: an email is drawn, the scanner applied.   *)
(***************************************************************************)
RECURSIVE Phrases(_)
Phrases(n) == IF n = 0 THEN <<>> ELSE Phrases(n - 1) \o keywords[n]

ScanBodies ==
    {Phrases(n) : n \in 0..Min(MaxBodyPhrases, Len(keywords))}
        \cup {<<"visit", "netflix.com">>, <<"URGENT">>, <<"account", "verify">>}

ScanSubjects ==
    {<<>>, <<"URGENT">>, <<"Payment", "Failed">>, <<"invoice", "attached">>,
     <<"netflix.com">>}

LinkNetflix == <<"https://", "netflix.com", "/login">>
LinkNetflixUpper == <<"https://", "Netflix.com">>
LinkEvil == <<"http://", "EVIL.xyz", "/x">>
LinkUnparseable == <<"click", "me">>
LinkMailto == <<"mailto:", "someone">>

ScanLinks ==
    {<<>>, <<LinkNetflix>>, <<LinkNetflixUpper>>, <<LinkEvil>>, <<LinkUnparseable>>,
     <<LinkMailto>>, <<LinkNetflix, LinkEvil>>}

ScanEmails ==
    {[from |-> <<"sender@example.com">>, subject |-> s, body |-> b, links |-> l,
      emailId |-> <<>>] : s \in ScanSubjects, b \in ScanBodies, l \in ScanLinks}

\* the fields of emailData that runLocalBasicScan reads
EmailFields == {"subject", "body", "links"}

\* emailData.body.toLowerCase() and emailData.subject.toLowerCase() of lines
\* 53-54 throw a TypeError when the field is undefined; line 75 tests
\* emailData.links before it reads its length
ScanThrows(absent) == "body" \in absent \/ "subject" \in absent

\* the harness: an absent field of the email holds the empty value, and
\* absent names it
IdleScan ==
    [email |-> NoEmail, absent |-> {}, isFallback |-> FALSE, done |-> FALSE,
     threw |-> FALSE, result |-> NoResult]

LocalScan ==
    /\ ~scan.done
    /\ scan' = IF ScanThrows(scan.absent)
                THEN [scan EXCEPT !.done = TRUE, !.threw = TRUE]
                ELSE [scan EXCEPT
                        !.done = TRUE,
                        !.result = runLocalBasicScan(scan.email, scan.isFallback)]
    /\ UNCHANGED <<store, now, inv, requests, popup>>

InitScan ==
    /\ store = EmptyStorage
    /\ now = Time0
    /\ inv = [i \in InvIds |-> IdleInv]
    /\ requests = <<>>
    /\ popup = IdlePopup
    /\ \E e \in ScanEmails, f \in BOOLEAN :
          scan = [IdleScan EXCEPT !.email = e, !.isFallback = f]

NextScan == LocalScan

SpecScan == InitScan /\ [][NextScan]_vars

\* the local scanner on emails that lack some of their fields
Without(e, absent) ==
    [e EXCEPT !.subject = IF "subject" \in absent THEN <<>> ELSE @,
              !.body = IF "body" \in absent THEN <<>> ELSE @,
              !.links = IF "links" \in absent THEN <<>> ELSE @]

InitMalformed ==
    /\ store = EmptyStorage
    /\ now = Time0
    /\ inv = [i \in InvIds |-> IdleInv]
    /\ requests = <<>>
    /\ popup = IdlePopup
    /\ \E e \in ScanEmails, a \in (SUBSET EmailFields) \ {{}}, f \in BOOLEAN :
          scan = [IdleScan EXCEPT !.email = Without(e, a), !.absent = a,
                                  !.isFallback = f]

SpecMalformed == InitMalformed /\ [][NextScan]_vars

(***************************************************************************)
(* The analysis pipeline: one analysis, with the settings form in use.     *)
(***************************************************************************)
EmailClean ==
    [from |-> <<"friend@example.com">>, subject |-> <<"lunch">>,
     body |-> <<"see", "you", "at", "noon">>, links |-> <<>>, emailId |-> <<97>>]

EmailUrgent ==
    [from |-> <<"boss@example.com">>, subject |-> <<"URGENT">>,
     body |-> <<"call", "me">>, links |-> <<>>, emailId |-> <<>>]

EmailPhish ==
    [from |-> <<"support@evil.xyz">>, subject |-> <<"Urgent">>,
     body |-> <<"account", "suspended", "verify", "account">>,
     links |-> <<LinkEvil>>, emailId |-> <<98>>]

PipelineEmails == {EmailClean, EmailUrgent, EmailPhish}

JsonObject(n) == <<Tok("{"), Members(n), Tok("}")>>

SamplePayload == PayloadIndex(Payload(FALSE, 70, 0))

Contents ==
    {JsonObject(n) : n \in DOMAIN Payloads}
        \cup {<<>>,
              <<Tok("ws")>> \o JsonObject(SamplePayload) \o <<Tok("ws")>>,
              <<Tok("fence_json"), Tok("ws")>> \o JsonObject(SamplePayload)
                  \o <<Tok("ws"), Tok("fence")>>,
              <<Tok("fence")>> \o JsonObject(SamplePayload) \o <<Tok("fence")>>,
              <<Tok("text")>> \o JsonObject(SamplePayload),
              <<Tok("{"), Tok("}")>>,
              <<Tok("text")>>,
              <<Tok("{"), Tok("text"), Tok("}")>>,
              <<Tok("}"), Tok("text"), Tok("{"), Members(SamplePayload)>>,
              JsonObject(SamplePayload) \o <<Tok("text"), Tok("}")>>,
              JsonObject(SamplePayload) \o <<Tok("ws")>> \o JsonObject(SamplePayload)}

\* what the fetch and the reading of its body come to: the fetch rejects
\* ("network_error"), the status is not a success ("http_error"), or the
\* response is a success whose first choice holds the content (empty: none)
Responses ==
    {[kind |-> "network_error", content |-> <<>>],
     [kind |-> "http_error", content |-> <<>>]}
        \cup {[kind |-> "ok", content |-> c] : c \in Contents}

\* what the user has typed when Save is clicked
Form(apiKey, endpoint, model, threshold) ==
    [apiKey |-> apiKey, endpoint |-> endpoint, model |-> model,
     threshold |-> threshold]

ParsedInt(n) == [nan |-> FALSE, n |-> n]
NotANumber == [nan |-> TRUE, n |-> 0]

Forms ==
    {Form(<<" ", "sk-or-", "abc", " ">>, <<>>, <<>>, NotANumber),
     Form(<<"sk-or-", "abc">>, <<"https://proxy.example/v1", " ">>,
          <<"custom/model">>, ParsedInt(-3)),
     Form(<<"sk-or-", "abc">>, <<>>, <<"custom/model">>, ParsedInt(250)),
     Form(<<"sk-or-", "abc">>, <<>>, <<>>, ParsedInt(50)),
     Form(<<" ">>, <<>>, <<>>, ParsedInt(30)),
     Form(<<"my-key">>, <<>>, <<>>, ParsedInt(30))}

\* a store that holds the credential alone (written before the other
\* settings existed)
CredentialOnly == StorageSet(EmptyStorage, KeyApiKey, <<"sk-or-", "old">>)

Init ==
    /\ store \in {EmptyStorage, CredentialOnly}
    /\ now = Time0
    /\ inv = [i \in InvIds |-> IdleInv]
    /\ requests = <<>>
    /\ scan = IdleScan
    /\ popup = IdlePopup

Next ==
    \/ \E e \in PipelineEmails : ReceiveAnalyzeEmail(1, e)
    \/ SettingsResolved(1)
    \/ SettingsFailed(1)
    \/ \E r \in Responses : FetchResolved(1, r)
    \/ StoreResolved(1)
    \/ StoreFailed(1)
    \/ \E f \in Forms : saveSettings(f.apiKey, f.endpoint, f.model, f.threshold)
    \/ clearApiKey
    \/ Tick

Spec == Init /\ [][Next]_vars

(***************************************************************************)
(* The settings form on its own, from an empty store.                      *)
(***************************************************************************)
FormKeys ==
    {<<>>, <<" ">>, <<"my-key">>, <<"SK-OR-", "abc">>, <<"key", "sk-or-">>,
     <<"sk-or-">>, <<"sk-or-", "abc">>, <<" ", "sk-or-", "xyz", " ">>}

FormEndpoints == {<<>>, <<"https://proxy.example/v1", " ">>}

FormModels == {<<>>, <<" ", "custom/model">>}

FormThresholds ==
    {NotANumber, ParsedInt(-3), ParsedInt(0), ParsedInt(1), ParsedInt(2),
     ParsedInt(30), ParsedInt(50), ParsedInt(99), ParsedInt(100), ParsedInt(101),
     ParsedInt(250)}

SettingsForms ==
    {Form(k, e, m, t) :
        k \in FormKeys, e \in FormEndpoints, m \in FormModels, t \in FormThresholds}

\* the forms saveSettings turns down: no key, or a key without the prefix
RejectedForms ==
    {f \in SettingsForms :
        LET k == TrimString(f.apiKey) IN k = <<>> \/ Head(k) # "sk-or-"}

InitSettings ==
    /\ store = EmptyStorage
    /\ now = Time0
    /\ inv = [i \in InvIds |-> IdleInv]
    /\ requests = <<>>
    /\ scan = IdleScan
    /\ popup = IdlePopup

NextSettings ==
    \/ \E f \in SettingsForms : saveSettings(f.apiKey, f.endpoint, f.model, f.threshold)
    \/ clearApiKey

SpecSettings == InitSettings /\ [][NextSettings]_vars

(***************************************************************************)
(* Retention: cleanupOldResults on a store left by earlier runs.           *)
(***************************************************************************)
\* the keys of the records of earlier runs: time keys and email ids, one
\* email id a prefix of another
OldKeyRest(j) ==
    CASE j % 3 = 1 -> DecimalDigits(100 + j)
      [] j % 3 = 2 -> <<97 + (j \div 3), 48 + j>>
      [] OTHER -> <<97 + (j \div 3)>>

OldKey(j) == AnalysisKey(OldKeyRest(j))

OldRecord(j) ==
    [NoRecord EXCEPT !.confidence = 10, !.recommendation = AiText,
                     !.timestamp = 100 + j,
                     !.settings = [model |-> DefaultModel, threshold |-> DefaultThreshold]]

WithOldRecords(storage, S) ==
    [k \in DOMAIN storage \cup {OldKey(j) : j \in S} |->
        IF k \in DOMAIN storage
        THEN storage[k]
        ELSE OldRecord(CHOOSE j \in S : OldKey(j) = k)]

\* the store after the settings were saved once
SavedStore ==
    SaveResult(EmptyStorage, <<"sk-or-", "abc">>, <<>>, <<"custom/model">>, ParsedInt(50))

OldSets ==
    {S \in SUBSET (1..MaxOldRecords) :
        Cardinality(S) <= 1 \/ Cardinality(S) >= MaxOldRecords - 3}

InitRetention ==
    /\ \E S \in OldSets, base \in {EmptyStorage, SavedStore} :
          store = WithOldRecords(base, S)
    /\ now = Time0
    /\ inv = [i \in InvIds |-> IdleInv]
    /\ requests = <<>>
    /\ scan = IdleScan
    /\ popup = IdlePopup

NextRetention ==
    \/ CleanupStart
    \/ CleanupGetResolved
    \/ CleanupRemoveResolved

SpecRetention == InitRetention /\ [][NextRetention]_vars

(***************************************************************************)
(* Every writer of the store together: the popup opens on a store left by  *)
(* earlier runs and cleans it up, the user saves and clears settings, and  *)
(* the background page analyses an email.                                  *)
(***************************************************************************)
\* an email whose key is new and one whose key an earlier record holds (an
\* email id made of digits, low in the order of the keys)
EmailRescanned ==
    [from |-> <<"friend@example.com">>, subject |-> <<"again">>,
     body |-> <<"see", "you">>, links |-> <<>>, emailId |-> OldKeyRest(1)]

StoreEmails == {EmailClean, EmailRescanned}

StoreResponses ==
    {[kind |-> "http_error", content |-> <<>>],
     [kind |-> "ok", content |-> JsonObject(SamplePayload)]}

InitStore ==
    /\ \E n \in {0, 2, MaxOldRecords - 1, MaxOldRecords},
          base \in {EmptyStorage, SavedStore} :
          store = WithOldRecords(base, 1..n)
    /\ now = Time0
    /\ inv = [i \in InvIds |-> IdleInv]
    /\ requests = <<>>
    /\ scan = IdleScan
    /\ popup = IdlePopup

NextStore ==
    \/ CleanupStart
    \/ CleanupGetResolved
    \/ CleanupRemoveResolved
    \/ \E f \in Forms : saveSettings(f.apiKey, f.endpoint, f.model, f.threshold)
    \/ clearApiKey
    \/ \E e \in StoreEmails : ReceiveAnalyzeEmail(1, e)
    \/ SettingsResolved(1)
    \/ SettingsFailed(1)
    \/ \E r \in StoreResponses : FetchResolved(1, r)
    \/ StoreResolved(1)
    \/ StoreFailed(1)

SpecStore == InitStore /\ [][NextStore]_vars

(***************************************************************************)
(* Two analyses of the same email in flight together.                      *)
(***************************************************************************)
\* the same message seen twice: one email id, the subject read differently
EmailCleanAgain == [EmailClean EXCEPT !.subject = <<"Re:", "lunch">>]

RaceEmails == {EmailClean, EmailCleanAgain}

RaceResponses ==
    {[kind |-> "http_error", content |-> <<>>],
     [kind |-> "ok", content |-> JsonObject(SamplePayload)],
     [kind |-> "ok", content |-> JsonObject(PayloadIndex(Payload(TRUE, 100, 2)))]}

RaceForm == Form(<<"sk-or-", "abc">>, <<>>, <<>>, ParsedInt(30))

InitRace ==
    /\ store = SavedStore
    /\ now = Time0
    /\ inv = [i \in InvIds |-> IdleInv]
    /\ requests = <<>>
    /\ scan = IdleScan
    /\ popup = IdlePopup

NextRace ==
    \/ \E i \in InvIds, e \in RaceEmails : ReceiveAnalyzeEmail(i, e)
    \/ \E i \in InvIds : SettingsResolved(i)
    \/ \E i \in InvIds, r \in RaceResponses : FetchResolved(i, r)
    \/ \E i \in InvIds : StoreResolved(i)
    \/ \E i \in InvIds : StoreFailed(i)
    \/ saveSettings(RaceForm.apiKey, RaceForm.endpoint, RaceForm.model,
                    RaceForm.threshold)
    \/ Tick

SpecRace == InitRace /\ [][NextRace]_vars

(***************************************************************************)
(* Result delivery: a scan from the popup, the analysis it starts in the   *)
(* background page, and the polling for its record.                        *)
(***************************************************************************)
MaxPendingReads == 2    \* interval callbacks whose read of the store is pending
MaxPollOldRecords == 2  \* records of earlier scans in the store

PollEmails == {EmailClean, EmailUrgent}

PollResponses ==
    {[kind |-> "network_error", content |-> <<>>],
     [kind |-> "ok", content |-> JsonObject(SamplePayload)]}

PageResults == {runLocalBasicScan(EmailClean, FALSE)}

InitPoll ==
    /\ \E n \in 0..MaxPollOldRecords : store = WithOldRecords(SavedStore, 1..n)
    /\ now = Time0
    /\ inv = [i \in InvIds |-> IdleInv]
    /\ requests = <<>>
    /\ scan = IdleScan
    /\ popup = IdlePopup

NextPoll ==
    \/ ScanClick
    \/ ScanKeyResolved
    \/ \E b \in BOOLEAN : ScanTabResolved(b)
    \/ \E r \in PageResults : ScanScriptReturned(r)
    \/ ScanScriptFailed
    \/ ScanScriptEmpty
    \/ PollTick(MaxPendingReads)
    \/ PollReadResolved
    \/ \E e \in PollEmails : ReceiveAnalyzeEmail(1, e)
    \/ SettingsResolved(1)
    \/ SettingsFailed(1)
    \/ \E r \in PollResponses : FetchResolved(1, r)
    \/ StoreResolved(1)
    \/ StoreFailed(1)
    \/ clearApiKey
    \/ Tick

SpecPoll == InitPoll /\ [][NextPoll]_vars

\* the same with the popup's loadLastResult
NextLatest ==
    \/ NextPoll
    \/ LoadLastStart
    \/ LoadLastResolved

SpecLatest == InitPoll /\ [][NextLatest]_vars

(***************************************************************************)
(* Properties.                                                             *)
(***************************************************************************)
Returned(i) == inv[i].pc = "done" /\ inv[i].reply.sent /\ inv[i].reply.success

\* the reconciliation step of the remote scan has run for invocation i
Reconciled(i) ==
    \/ inv[i].pc = "store"
    \/ inv[i].pc = "done" /\ inv[i].path = "remote"

Consistent(r) == Len(r.indicators) > 0 => (r.isPhishing /\ r.confidence >= 50)

\* C1 as stated: every result analyzeEmail returns, whichever path produced
\* it, has isPhishing true and confidence >= 50 whenever it has indicators.
C1_EveryPathConsistent ==
    \A i \in InvIds : Returned(i) => Consistent(inv[i].reply.result)

\* C1 amended: a result returned from the remote path has isPhishing true and
\* confidence >= 50 whenever it has indicators; a result of the local scanner
\* (no credential, or fallback) has isPhishing true exactly when its
\* confidence is >= 45, and confidence >= 10 whenever it has indicators.
C1_RemoteConsistentLocalBanded ==
    \A i \in InvIds :
        Returned(i) =>
            LET r == inv[i].reply.result
            IN /\ inv[i].path \in {"remote", "local", "fallback"}
               /\ inv[i].path = "remote" => Consistent(r)
               /\ inv[i].path \in {"local", "fallback"} =>
                     /\ r.isPhishing <=> r.confidence >= 45
                     /\ Len(r.indicators) > 0 => r.confidence >= 10

C1_Witness ==
    /\ Returned(1)
    /\ inv[1].path = "remote"
    /\ Len(inv[1].raw.indicators) > 0
    /\ ~inv[1].raw.isPhishing
    /\ inv[1].raw.confidence < 50
    /\ inv[1].reply.result.isPhishing
    /\ inv[1].reply.result.confidence = 50

C3_ThresholdRule ==
    \A i \in InvIds :
        Reconciled(i) =>
            LET t == inv[i].settings.user_threshold
            IN /\ t \in 0..100
               /\ (t >= 1 /\ inv[i].raw.confidence >= t) => inv[i].result.isPhishing
               /\ (t = 0 /\ inv[i].raw.confidence >= 70) => inv[i].result.isPhishing

C3_Witness ==
    /\ Reconciled(1)
    /\ KeyThreshold \notin DOMAIN store
    /\ inv[1].settings.user_threshold = 0
    /\ inv[1].raw.confidence = 70
    /\ ~inv[1].raw.isPhishing
    /\ inv[1].raw.indicators = <<>>
    /\ inv[1].result.isPhishing

\* C4: applying the two reconciliation rules again, with the same threshold,
\* to a reconciled result changes nothing; the explanatory clause is not
\* prepended a second time.
C4_Idempotent ==
    \A i \in InvIds :
        Reconciled(i) =>
            LET t == ThresholdOf(inv[i].settings)
                again == ThresholdRule(IndicatorRule(inv[i].result), t)
            IN /\ again.isPhishing = inv[i].result.isPhishing
               /\ again.confidence = inv[i].result.confidence
               /\ again.indicators = inv[i].result.indicators
               /\ again.recommendation = inv[i].result.recommendation

C4_Witness ==
    /\ Reconciled(1)
    /\ ~inv[1].raw.isPhishing
    /\ inv[1].result.isPhishing
    /\ Len(inv[1].result.recommendation) = Len(inv[1].raw.recommendation) + 1
    /\ Head(inv[1].result.recommendation).tag = "flagged_high_confidence"
    /\ Head(inv[1].result.recommendation).a = 100
    /\ Head(inv[1].result.recommendation).b = 50

\* C5: when the settings read of analyzeEmail finds no credential in the
\* store, that step ends the invocation with the reply {success: true,
\* result: runLocalBasicScan(email)} without the fallback notice, sends no
\* request to the remote service and leaves the store as it was.
C5_NoCredentialLocal ==
    [][\A i \in InvIds :
          (/\ inv[i].pc = "settings"
           /\ inv'[i].pc # "settings"
           /\ inv'[i].path # "error"
           /\ KeyApiKey \notin DOMAIN store)
          => /\ inv'[i].pc = "done"
             /\ inv'[i].reply = ReplyResult(runLocalBasicScan(inv[i].email, FALSE))
             /\ \A j \in 1..Len(inv'[i].reply.result.recommendation) :
                    inv'[i].reply.result.recommendation[j].tag # "api_scan_failed"
             /\ requests' = requests
             /\ store' = store]_vars

C5_Witness ==
    /\ Returned(1)
    /\ inv[1].path = "local"
    /\ inv[1].email = EmailUrgent
    /\ inv[1].reply.result.confidence = 15
    /\ inv[1].reply.result.recommendation = <<Clause("local_cautiously_safe", 0, 0)>>
    /\ requests = <<>>
    /\ AnalysisKeysOf(store) = {}

\* the failures of the remote scan that C6 lists
RemoteFailure(resp) ==
    \/ resp.kind = "network_error"
    \/ resp.kind = "http_error"
    \/ resp.kind = "ok" /\ resp.content = <<>>
    \/ resp.kind = "ok" /\ resp.content # <<>> /\
         LET text == StripFences(Trim(resp.content))
         IN \/ ~HasJsonMatch(text)
            \/ ~JsonParses(JsonMatch(text))
            \/ ~ValidStructure(JsonParse(JsonMatch(text)))

\* C6: with a credential, an invocation whose remote scan failed ends with
\* the reply {success: true, result: the local scan with the fallback notice
\* first in its recommendation}; the step that falls back writes nothing to
\* the store.
C6_FailureFallsBack ==
    /\ [](\A i \in InvIds :
            (inv[i].response.kind # "none" /\ RemoteFailure(inv[i].response)) =>
                /\ inv[i].pc = "done"
                /\ inv[i].path = "fallback"
                /\ inv[i].reply = ReplyResult(runLocalBasicScan(inv[i].email, TRUE))
                /\ Head(inv[i].reply.result.recommendation).tag = "api_scan_failed")
    /\ [][\A i \in InvIds :
            (inv[i].path # "fallback" /\ inv'[i].path = "fallback") =>
                /\ inv[i].pc \in {"fetch", "store"}
                /\ ~NoApiKey(inv[i].settings)
                /\ inv'[i].reply.success
                /\ store' = store]_vars

C6_Witness ==
    /\ Returned(1)
    /\ inv[1].path = "fallback"
    /\ inv[1].response.kind = "ok"
    /\ HasJsonMatch(inv[1].response.content)
    /\ JsonParses(JsonMatch(inv[1].response.content))
    /\ ~ValidStructure(JsonParse(JsonMatch(inv[1].response.content)))
    /\ inv[1].email = EmailPhish
    /\ inv[1].reply.result.confidence = 75
    /\ AnalysisKeysOf(store) = {}

\* the keyword terms found in the subject or the body
KeywordsFound(email) ==
    {n \in 1..Len(keywords) :
        \/ Includes(ToLowerCase(email.body), keywords[n])
        \/ Includes(ToLowerCase(email.subject), keywords[n])}

\* some link does not parse, or its host is in neither the subject nor the body
SomeLinkMismatched(email) ==
    \E i \in 1..Len(email.links) :
        \/ ~URLParses(email.links[i])
        \/ /\ ~Includes(ToLowerCase(email.body), URLHostname(email.links[i]))
           /\ ~Includes(ToLowerCase(email.subject), URLHostname(email.links[i]))

ExpectedConfidence(email) ==
    LET k == Cardinality(KeywordsFound(email))
        L == IF Len(email.links) > 0 /\ 15 * k < 45 THEN 10 ELSE 0
        M == IF SomeLinkMismatched(email) THEN 30 ELSE 0
    IN 15 * k + L + M

\* C7: the confidence of the local scanner is min(90, 15k + L + M) and
\* isPhishing is true exactly when it is >= 45; no keyword and no link give
\* 0/false, one keyword and no link 15/false, three keywords and one
\* mismatched link at least 75/true.
C7_LocalConfidence ==
    scan.done =>
        LET e == scan.email
            k == Cardinality(KeywordsFound(e))
            r == scan.result
        IN /\ r.confidence = Min(90, ExpectedConfidence(e))
           /\ r.isPhishing <=> r.confidence >= 45
           /\ (k = 0 /\ e.links = <<>>) => (r.confidence = 0 /\ ~r.isPhishing)
           /\ (k = 1 /\ e.links = <<>>) => (r.confidence = 15 /\ ~r.isPhishing)
           /\ (k = 3 /\ Len(e.links) = 1 /\ SomeLinkMismatched(e)) =>
                 (r.confidence >= 75 /\ r.isPhishing)

C7_Witness ==
    /\ scan.done
    /\ Cardinality(KeywordsFound(scan.email)) = 3
    /\ scan.email.links = <<LinkEvil>>
    /\ scan.result.confidence = 75
    /\ scan.result.isPhishing

\* C8: the confidence the local scanner returns is in 0..90.
C8_LocalConfidenceRange ==
    scan.done => scan.result.confidence \in 0..90

C8_Witness ==
    /\ scan.done
    /\ ExpectedConfidence(scan.email) > 100
    /\ scan.result.confidence = 90

\* C9: when cleanupOldResults has run on a store holding n analysis records,
\* min(n, 10) of them remain, every removed key is lexically below every
\* kept one, the kept records are unchanged and so is every other key.
C9_Retention ==
    popup.cleanup.pc = "done" =>
        LET before == popup.cleanup.storage
            had == AnalysisKeysOf(before)
            kept == AnalysisKeysOf(store)
        IN /\ Cardinality(kept) = Min(Cardinality(had), 10)
           /\ kept \subseteq had
           /\ \A k \in kept, r \in had \ kept : LexLess(r.rest, k.rest)
           /\ \A k \in kept : store[k] = before[k]
           /\ \A k \in DOMAIN before :
                 ~IsAnalysisKey(k) => (k \in DOMAIN store /\ store[k] = before[k])

C9_Witness ==
    /\ popup.cleanup.pc = "done"
    /\ Cardinality(AnalysisKeysOf(popup.cleanup.storage)) = 12
    /\ Cardinality(AnalysisKeysOf(store)) = 10
    /\ Len(popup.cleanup.keysToRemove) = 2
    /\ KeyApiKey \in DOMAIN store

\* C10 as stated: the record pollForResult delivers was written after the
\* scan started, never one the store already held.
C10_DeliversNewRecord ==
    popup.delivered.shown => popup.delivered.record.timestamp >= popup.startedAt

\* C11 as stated: pollForResult samples the store at most 30 times, and the
\* timed-out outcome is reported after the 30th sample and no other.
C11_AtMostThirtySamples ==
    /\ popup.attempts <= 30
    /\ (\E i \in 1..Len(popup.outcomes) : popup.outcomes[i] = "timeout") =>
          popup.attempts = 30

\* C12 as stated: every result analyzeEmail returns and every record stored
\* under an analysis_ key has a confidence in 0..100, whatever schema-valid
\* response the service gave.
C12_ConfidenceInRange ==
    /\ \A i \in InvIds : Returned(i) => inv[i].reply.result.confidence \in 0..100
    /\ \A k \in AnalysisKeysOf(store) : store[k].confidence \in 0..100

\* C13 as stated: on an email whose subject, body or links field is absent,
\* runLocalBasicScan raises no error and returns the result it computes for
\* the email with the absent fields empty.
C13_AbsentFieldsAsEmpty ==
    (scan.done /\ scan.absent # {}) =>
        /\ ~scan.threw
        /\ scan.result = runLocalBasicScan(scan.email, scan.isFallback)

\* invocation i met a failure of the storage layer: its settings read was
\* rejected, or its remote scan was accepted and the write of the record was
\* rejected
StorageFailure(i) ==
    \/ inv[i].path = "error"
    \/ /\ inv[i].path = "fallback"
       /\ inv[i].response.kind # "none"
       /\ ~RemoteFailure(inv[i].response)

\* C14 as stated: an invocation that met a storage failure, while reading the
\* settings or while writing the record of a successful remote scan, replies
\* {success: false, error}, never a local-scan result.
C14_StorageFailureReported ==
    \A i \in InvIds :
        (inv[i].pc = "done" /\ StorageFailure(i)) =>
            (inv[i].reply.sent /\ ~inv[i].reply.success)

\* C15: in every state reached from the empty store by saveSettings and
\* clearApiKey, or_api_key is absent or starts with "sk-or-" and
\* user_threshold is absent or an integer in 1..100; a saveSettings step on a
\* form whose key is empty or lacks the prefix leaves the store unchanged.
C15_SettingsInvariant ==
    /\ [](/\ KeyApiKey \in DOMAIN store =>
                (store[KeyApiKey] # <<>> /\ Head(store[KeyApiKey]) = "sk-or-")
          /\ KeyThreshold \in DOMAIN store => store[KeyThreshold] \in 1..100)
    /\ [][(\E f \in RejectedForms :
              saveSettings(f.apiKey, f.endpoint, f.model, f.threshold))
           => store' = store]_vars

C15_Witness ==
    /\ KeyApiKey \notin DOMAIN store
    /\ KeyThreshold \in DOMAIN store
    /\ store[KeyThreshold] = 100
    /\ store[KeyModel] = <<"custom/model">>

\* C16: a step that removes the credential leaves every other key of the
\* store, the analysis records and the endpoint, model and threshold
\* settings, as it was; an analysis record leaves the store only in the
\* remove step of cleanupOldResults, as one of the keys it evicts.
C16_ClearRemovesOnlyCredential ==
    [][/\ (KeyApiKey \in DOMAIN store /\ KeyApiKey \notin DOMAIN store') =>
            /\ DOMAIN store' = DOMAIN store \ {KeyApiKey}
            /\ \A k \in DOMAIN store' : store'[k] = store[k]
       /\ \A k \in AnalysisKeysOf(store) :
            k \notin DOMAIN store' =>
                /\ popup.cleanup.pc = "remove"
                /\ popup'.cleanup.pc = "done"
                /\ k \in Range(popup.cleanup.keysToRemove)]_vars

C16_Witness ==
    /\ KeyApiKey \notin DOMAIN store
    /\ KeyModel \in DOMAIN store
    /\ KeyEndpoint \in DOMAIN store
    /\ KeyThreshold \in DOMAIN store
    /\ store[KeyThreshold] = 50
    /\ Cardinality(AnalysisKeysOf(store)) = 12
    /\ popup.cleanup.pc = "get"

\* both invocations ended on the remote path
BothWritten == \A i \in InvIds : inv[i].pc = "done" /\ inv[i].path = "remote"

\* C17: when two invocations for the same email id have both written, the
\* store holds one record under analysis_<emailId>, and it is the whole
\* record of one of them; the step in which an invocation's write resolves
\* leaves the store holding exactly that invocation's record under the key,
\* so the record is that of whichever wrote last.
C17_LastWriterWins ==
    /\ [](BothWritten =>
            /\ inv[1].pending.key = inv[2].pending.key
            /\ AnalysisKeysOf(store) = {inv[1].pending.key}
            /\ store[inv[1].pending.key]
                  \in {inv[1].pending.value, inv[2].pending.value})
    /\ [][\A i \in InvIds :
            (inv[i].pc = "store" /\ inv'[i].pc = "done" /\ inv'[i].path = "remote")
            => /\ store'[inv[i].pending.key] = inv[i].pending.value
               /\ DOMAIN store' = DOMAIN store \cup {inv[i].pending.key}
               /\ \A k \in DOMAIN store \ {inv[i].pending.key} :
                      store'[k] = store[k]]_vars

C17_Witness ==
    /\ BothWritten
    /\ store[inv[1].pending.key] = inv[2].pending.value
    /\ inv[2].pending.value.timestamp < inv[1].pending.value.timestamp
    /\ inv[2].pending.value.confidence # inv[1].pending.value.confidence
    /\ inv[2].pending.value.emailData # inv[1].pending.value.emailData
    /\ inv[2].pending.value.settings # inv[1].pending.value.settings

\* r is a record of the storage, and no record of it has a greater timestamp
Newest(storage, r) ==
    /\ \E k \in AnalysisKeysOf(storage) : storage[k] = r
    /\ \A k \in AnalysisKeysOf(storage) : storage[k].timestamp <= r.timestamp

\* C18 as stated: the record loadLastResult displays, and the one
\* pollForResult delivers, is the stored analysis record with the greatest
\* timestamp, whatever keys the records are stored under.
C18_LatestIsNewest ==
    [][/\ (popup.loadPc = "get" /\ popup'.loadPc = "done"
            /\ AnalysisKeysOf(store) # {}) =>
              (popup'.displayed.shown /\ Newest(store, popup'.displayed.record))
       /\ popup'.delivered # popup.delivered =>
              Newest(store, popup'.delivered.record)]_vars

\* the first balanced brace span of a text: from its first "{" to the
\* nearest "}" after it (the member list of an object holds no brace)
HasBalancedSpan(s) ==
    /\ Positions(s, "{") # {}
    /\ \E j \in Positions(s, "}") : j > SetMin(Positions(s, "{"))

FirstBalancedSpan(s) ==
    LET open == SetMin(Positions(s, "{"))
    IN SubSeq(s, open, SetMin({j \in Positions(s, "}") : j > open}))

\* C19 as stated: when the text of a successful response, its fences
\* stripped, has a first balanced brace span that is a valid object, that
\* object is the one parsed and accepted, whatever follows it; the scan fails
\* for want of a JSON object only when the text has no such span.
C19_FirstBalancedSpanParsed ==
    \A i \in InvIds :
        (inv[i].response.kind = "ok" /\ inv[i].response.content # <<>>) =>
            LET text == StripFences(Trim(inv[i].response.content))
            IN /\ (/\ HasBalancedSpan(text)
                   /\ JsonParses(FirstBalancedSpan(text))
                   /\ ValidStructure(JsonParse(FirstBalancedSpan(text))))
                  => inv[i].raw = ResultOf(JsonParse(FirstBalancedSpan(text)))
               /\ ParseContent(inv[i].response.content).error
                      = "Invalid response format from API"
                  => ~HasBalancedSpan(text)

\* C20 as stated: a call of pollForResult reports one outcome and no more,
\* whatever interval callbacks had their read of the store pending when the
\* interval was cleared, and starts at most 30 reads of the store.
C20_ExactlyOneOutcome ==
    /\ Len(popup.outcomes) <= 1
    /\ popup.scanPc = "done" => popup.attempts <= 30

\* C21 as stated: the remove step of cleanupOldResults deletes no record
\* written after cleanup read the store: a key that was absent from its
\* snapshot, or whose record differs from the snapshot's, is still in the
\* store with the same record when cleanup finishes.
C21_CleanupKeepsLaterWrites ==
    [][(popup.cleanup.pc = "remove" /\ popup'.cleanup.pc = "done") =>
          \A k \in AnalysisKeysOf(store) :
              (\/ k \notin DOMAIN popup.cleanup.storage
               \/ store[k] # popup.cleanup.storage[k])
              => (k \in DOMAIN store' /\ store'[k] = store[k])]_vars

=============================================================================
